---- MODULE Spec2Model ----
(***************************************************************************)
(* Verification model of the chat-automation orchestration core:           *)
(*   - FileSessionProvider   (src/src/session_provider.py, models.py)      *)
(*   - ShutdownHandler       (src/src/shutdown_handler.py)                 *)
(*   - Orchestrator          (src/src/bot.py)                              *)
(*   - ChatGPTBot            (src/src/chatgpt/bot.py)                      *)
(*   - HttpApiPromptProvider (src/src/prompt_provider.py)                  *)
(*   - HttpApiResultPersister (src/src/result_persister.py)                *)
(*   - CitationExtractor     (src/src/chatgpt/citation_extractor.py)       *)
(* The Orchestrator calls a session pool through get_session(),            *)
(* record_evaluation() -> {remaining, rotated} and force_rotate(); that    *)
(* pool is not the FileSessionProvider of session_provider.py, and is      *)
(* modelled after section 4.1 of the specification (Pool* definitions).    *)
(***************************************************************************)
EXTENDS Integers, Sequences, FiniteSets, TLC

\* ---------------------------------------------------------------- bounds
MaxSessions == 2      \* largest number of session files loaded
MaxUsage    == 2      \* largest max_usage_per_session explored
MaxCalls    == 5      \* longest sequence of FileSessionProvider calls
MaxAttempts == 2      \* largest --max-attempts explored
MaxPrompts  == 2      \* prompts the prompt source hands out
MaxCrash    == 1      \* times a browser page is closed from outside
MaxCollabCalls == 5   \* longest sequence of calls on a Bot and the HTTP clients
MaxRetry    == 3      \* largest retry_attempts / submit_retry_attempts explored
MaxLinks    == 2      \* most <a> elements in a citations panel
MaxLines    == 3      \* most lines of text in a citations panel

VARIABLES
    \* configuration, fixed at construction
    N,              \* len(_rotation_order): number of sessions
    max_usage,      \* FileSessionProvider._max_usage / per-session-runs
    max_attempts,   \* Orchestrator._max_attempts
    \* FileSessionProvider
    fsp_index,      \* _current_index
    fsp_usage,      \* session -> SessionInfo.usage_count
    fsp_valid,      \* session -> SessionInfo.is_valid
    fsp_last,       \* history: the last call, its argument and result, and
                    \*   the index, the counters and fsp_run before it
    fsp_calls,      \* history: number of calls made so far
    fsp_recs,       \* history: session -> record_evaluation calls on it
    fsp_fresh,      \* history: session -> its counter was never reset
    fsp_rot,        \* history: number of rotations (auto or forced)
    fsp_skips,      \* history: index advances made by get_session
    fsp_run,        \* history: the last get_session result and what followed
    fsp_proto,      \* history: every record_evaluation so far was made on the
                    \*   session last returned, before it reported remaining 0
    \* ShutdownHandler
    shutdown,       \* _shutdown_event is set
    handler,        \* signal -> handler currently installed in the process
    original,       \* signal -> _original_<signal>_handler
    \* session pool used by the Orchestrator (specification section 4.1)
    pool_index,     \* current rotation index
    pool_usage,     \* usage counter of the current session
    \* Orchestrator
    pc,             \* position of run() / _process_prompt()
    attempt,        \* loop variable of `for attempt in range(1, max_attempts + 1)`
    bot,            \* self._bot and the ChatGPTBot fields behind it
    result,         \* the EvaluationResult of the last evaluate call
    playwright,     \* self._playwright is started
    last_prompt_time, \* self._last_prompt_time is not None
    provider_closed,  \* the prompt provider's close() has run
    processed,      \* local `processed` of run()
    \* history of the prompt being processed
    evals,          \* evaluate calls made inside the attempt loop
    final_evals,    \* evaluate calls made by the forced-rotation retry
    first_cit,      \* number of the first evaluate call that returned citations
    all_ok,         \* no initialize / start_new_conversation has failed
    saves,          \* sequence of save() calls that returned
    finished,       \* _process_prompt has returned
    \* history of the run
    polled_since,   \* a poll() call was started since _process_prompt returned
    polls_after,    \* poll() calls started after shutdown was requested
                    \*   (2 stands for two or more)
    crashes,        \* pages closed from outside so far
    orphans,        \* browsers left open by Bots the Orchestrator dropped
    inits,          \* initialize calls made for the prompt in hand
    \* observations of the run
    elapsed,        \* the timeout of the backoff wait in progress has passed
    shut_in_wait,   \* history: shutdown was requested during a backoff wait,
                    \*   before its timeout had passed
    raised_by,      \* history: the call whose exception ended run()
    idle_fired,     \* history: the idle timeout closed the Bot, and no prompt
                    \*   has been completed since
    \* the collaborators on their own (ChatGPTBot, the HTTP prompt provider
    \* and result persister, the signal handlers)
    chromium,       \* calls made to the browser driver by the Bot
    bot_last,       \* history: the last Bot call, its result, the Bot before it
    bot_prev,       \* history: the Bot call before the last one
    collab_calls,   \* history: number of calls made on the collaborators
    pp,             \* HttpApiPromptProvider: _closed, closes of its _session,
                    \*   close() calls made on it
    rp,             \* HttpApiResultPersister: the same
    sig_last,       \* history: the last install / restore call
    sig_before,     \* history: the handlers in place before the last install
    \* the HTTP clients' calls
    retry_attempts,         \* HttpApiPromptProvider._retry_attempts
    submit_retry_attempts,  \* HttpApiResultPersister._submit_retry_attempts
    http,           \* the poll() / save() call in progress, or the last one:
                    \*   its arguments, the loop variable, the requests sent
                    \*   so far and how it ended
    \* CitationExtractor
    panel,          \* the citations panel: its <a> elements and its text
    citations       \* what _extract_from_panel returned for it

fspVars == <<fsp_index, fsp_usage, fsp_valid, fsp_last, fsp_calls,
             fsp_recs, fsp_fresh, fsp_rot, fsp_skips, fsp_run, fsp_proto>>
cfgVars == <<N, max_usage, max_attempts>>
sigVars == <<shutdown, handler, original>>
poolVars == <<pool_index, pool_usage>>
runVars == <<pc, attempt, bot, result, playwright, last_prompt_time,
             provider_closed, processed>>
histVars == <<evals, final_evals, first_cit, all_ok, saves, finished,
              polled_since, polls_after, crashes, orphans, inits>>
obsVars == <<elapsed, shut_in_wait, raised_by, idle_fired>>
httpVars == <<retry_attempts, submit_retry_attempts, http>>
extractVars == <<panel, citations>>
compVars == <<chromium, bot_last, bot_prev, collab_calls, pp, rp,
              sig_last, sig_before, httpVars, extractVars>>

None == -1                       \* Python None where a session id is expected
KeyError == -2                   \* record_evaluation raised KeyError

Sessions == 0 .. (N - 1)         \* positions in _rotation_order (sorted file stems)
Unknown  == N                    \* a session id that is not in _sessions

\* ------------------------------------------------- models.py: SessionInfo
\* mutants: the clamp at 0 forgotten; the count taken one evaluation early
evaluations_remaining_unclamped(u) == max_usage - u

evaluations_remaining_early(u) ==
    IF max_usage - u - 1 > 0 THEN max_usage - u - 1 ELSE 0

evaluations_remaining(u) == IF max_usage - u > 0 THEN max_usage - u ELSE 0

\* mutant: `>` written for `>=`
needs_rotation_strict(u) == u > max_usage

needs_rotation(u) == u >= max_usage

\* ------------------------------------- session_provider.py: get_session
\* The while loop of get_session: from index i, after `attempts` skipped
\* sessions; yields the index reached and the session found (or None).
\* mutant: the loop gives up one session early
RECURSIVE get_session_scan_short(_, _)
get_session_scan_short(i, attempts) ==
    IF attempts >= N - 1
    THEN [index |-> i, session |-> None, skipped |-> attempts]
    ELSE IF fsp_valid[i]
         THEN [index |-> i, session |-> i, skipped |-> attempts]
         ELSE get_session_scan_short((i + 1) % N, attempts + 1)

RECURSIVE get_session_scan(_, _)
get_session_scan(i, attempts) ==
    IF attempts >= N
    THEN [index |-> i, session |-> None, skipped |-> attempts]
    ELSE IF fsp_valid[i]
         THEN [index |-> i, session |-> i, skipped |-> attempts]
         ELSE get_session_scan((i + 1) % N, attempts + 1)

\* Every call is recorded with what the pool looked like before it.
FspCall(op, arg, ret) ==
    /\ fsp_calls < MaxCalls
    /\ fsp_calls' = fsp_calls + 1
    /\ fsp_last' = [op |-> op, arg |-> arg, ret |-> ret,
                    index |-> fsp_index, usage |-> fsp_usage, run |-> fsp_run]

get_session ==
    LET r == get_session_scan(fsp_index, 0)
        reset == r.session # None /\ needs_rotation(fsp_usage[r.session])
    IN /\ FspCall("get_session", None, r.session)
       /\ fsp_index' = r.index
       /\ fsp_usage' = IF reset THEN [fsp_usage EXCEPT ![r.session] = 0]
                       ELSE fsp_usage
       /\ fsp_fresh' = IF reset THEN [fsp_fresh EXCEPT ![r.session] = FALSE]
                       ELSE fsp_fresh
       /\ fsp_skips' = fsp_skips + r.skipped
       /\ fsp_run' = [session |-> r.session,
                      usage |-> IF r.session = None THEN 0 ELSE fsp_usage'[r.session],
                      records |-> 0, zero |-> FALSE, clean |-> TRUE]
       /\ UNCHANGED <<fsp_valid, fsp_recs, fsp_rot, fsp_proto>>

\* ------------------------------- session_provider.py: record_evaluation
\* mutants: the index left where it was; the wraparound forgotten
record_evaluation_index_stay(i, remaining) == i

record_evaluation_index_nowrap(i, remaining) ==
    IF remaining = 0 THEN i + 1 ELSE i

record_evaluation_index(i, remaining) ==
    IF remaining = 0 THEN (i + 1) % N ELSE i

record_evaluation(s) ==
    IF s \notin Sessions
    THEN /\ FspCall("record_evaluation", s, KeyError)
         /\ fsp_run' = [fsp_run EXCEPT !.clean = FALSE]
         /\ UNCHANGED <<fsp_index, fsp_usage, fsp_valid, fsp_recs, fsp_fresh,
                        fsp_rot, fsp_skips, fsp_proto>>
    ELSE LET u == fsp_usage[s] + 1
             remaining == evaluations_remaining(u)
         IN /\ FspCall("record_evaluation", s, remaining)
            /\ fsp_usage' = [fsp_usage EXCEPT ![s] = u]
            /\ fsp_index' = record_evaluation_index(fsp_index, remaining)
            /\ fsp_recs' = [fsp_recs EXCEPT ![s] = @ + 1]
            /\ fsp_rot' = IF remaining = 0 THEN fsp_rot + 1 ELSE fsp_rot
            /\ fsp_proto' = (fsp_proto /\ fsp_run.session = s /\ ~fsp_run.zero)
            /\ fsp_run' = IF fsp_run.session = s
                          THEN [fsp_run EXCEPT !.records = @ + 1,
                                               !.zero = @ \/ remaining = 0]
                          ELSE [fsp_run EXCEPT !.clean = FALSE]
            /\ UNCHANGED <<fsp_valid, fsp_fresh, fsp_skips>>

\* ------------------------------------ session_provider.py: mark_invalid
\* mutant: the session is invalidated but the index does not advance
mark_invalid_stay(s) ==
    /\ FspCall("mark_invalid", s, None)
    /\ fsp_run' = [fsp_run EXCEPT !.clean = FALSE]
    /\ IF s \in Sessions
       THEN /\ fsp_valid' = [fsp_valid EXCEPT ![s] = FALSE]
            /\ fsp_rot' = fsp_rot + 1
       ELSE UNCHANGED <<fsp_valid, fsp_rot>>
    /\ UNCHANGED <<fsp_index, fsp_usage, fsp_recs, fsp_fresh, fsp_skips, fsp_proto>>

mark_invalid(s) ==
    /\ FspCall("mark_invalid", s, None)
    /\ fsp_run' = [fsp_run EXCEPT !.clean = FALSE]
    /\ IF s \in Sessions
       THEN /\ fsp_valid' = [fsp_valid EXCEPT ![s] = FALSE]
            /\ fsp_index' = (fsp_index + 1) % N
            /\ fsp_rot' = fsp_rot + 1
       ELSE UNCHANGED <<fsp_valid, fsp_index, fsp_rot>>
    /\ UNCHANGED <<fsp_usage, fsp_recs, fsp_fresh, fsp_skips, fsp_proto>>

\* ----------------------------------- session_provider.py: reset_session
\* mutant: resetting a session makes it valid again
reset_session_revalidates(s) ==
    /\ FspCall("reset_session", s, None)
    /\ fsp_run' = [fsp_run EXCEPT !.clean = FALSE]
    /\ IF s \in Sessions
       THEN /\ fsp_usage' = [fsp_usage EXCEPT ![s] = 0]
            /\ fsp_fresh' = [fsp_fresh EXCEPT ![s] = FALSE]
            /\ fsp_valid' = [fsp_valid EXCEPT ![s] = TRUE]
       ELSE UNCHANGED <<fsp_usage, fsp_fresh, fsp_valid>>
    /\ UNCHANGED <<fsp_index, fsp_recs, fsp_rot, fsp_skips, fsp_proto>>

reset_session(s) ==
    /\ FspCall("reset_session", s, None)
    /\ fsp_run' = [fsp_run EXCEPT !.clean = FALSE]
    /\ IF s \in Sessions
       THEN /\ fsp_usage' = [fsp_usage EXCEPT ![s] = 0]
            /\ fsp_fresh' = [fsp_fresh EXCEPT ![s] = FALSE]
       ELSE UNCHANGED <<fsp_usage, fsp_fresh>>
    /\ UNCHANGED <<fsp_index, fsp_valid, fsp_recs, fsp_rot, fsp_skips, fsp_proto>>

\* session_provider.py: available_session_count
available_session_count == Cardinality({s \in Sessions : fsp_valid[s]})

\* ------------------------------------------- FileSessionProvider.__init__
NoRun == [session |-> None, usage |-> 0, records |-> 0, zero |-> FALSE,
          clean |-> FALSE]

FspInit ==
    /\ fsp_index = 0
    /\ fsp_usage = [s \in Sessions |-> 0]
    /\ fsp_valid = [s \in Sessions |-> TRUE]
    /\ fsp_last = [op |-> "init", arg |-> None, ret |-> None, index |-> 0,
                   usage |-> [s \in Sessions |-> 0], run |-> NoRun]
    /\ fsp_calls = 0
    /\ fsp_recs = [s \in Sessions |-> 0]
    /\ fsp_fresh = [s \in Sessions |-> TRUE]
    /\ fsp_rot = 0
    /\ fsp_skips = 0
    /\ fsp_run = NoRun
    /\ fsp_proto = TRUE

\* =================================================== shutdown_handler.py
Signals == {"SIGINT", "SIGTERM"}

\* Python's truth value of a saved handler: None and SIG_DFL (the integer 0)
\* are false, SIG_IGN (1) and every callable are true.
Truthy(h) == h \notin {"None", "SIG_DFL"}

install_signal_handlers ==
    /\ original' = handler
    /\ handler' = [sig \in Signals |-> "_handle_signal"]

restored_handlers ==
    [sig \in Signals |-> IF Truthy(original[sig]) THEN original[sig] ELSE handler[sig]]

\* _handle_signal, run by the interpreter when a signal arrives
HandleSignal(sig) ==
    /\ pc \notin {"done", "raised"}
    /\ handler[sig] = "_handle_signal"
    /\ ~shutdown
    /\ shutdown' = TRUE
    /\ shut_in_wait' = (pc = "wait" /\ ~elapsed)
    /\ UNCHANGED <<handler, original, elapsed, raised_by, idle_fired>>
    /\ UNCHANGED <<compVars, cfgVars, fspVars, poolVars, runVars, histVars>>

RequestShutdown ==
    /\ pc \notin {"done", "raised"}
    /\ ~shutdown
    /\ shutdown' = TRUE
    /\ shut_in_wait' = (pc = "wait" /\ ~elapsed)
    /\ UNCHANGED <<handler, original, elapsed, raised_by, idle_fired>>
    /\ UNCHANGED <<compVars, cfgVars, fspVars, poolVars, runVars, histVars>>

\* ======================================= the session pool of section 4.1
PoolRecordEvaluation(i, u) ==
    IF u + 1 >= max_usage
    THEN [index |-> (i + 1) % N, usage |-> 0, rotated |-> TRUE, remaining |-> 0]
    ELSE [index |-> i, usage |-> u + 1, rotated |-> FALSE,
          remaining |-> max_usage - (u + 1)]

PoolForceRotate(i) == [index |-> (i + 1) % N, usage |-> 0]

\* ========================================================= chatgpt/bot.py
NoBot == [obj |-> FALSE, flag |-> FALSE, browser |-> FALSE, page |-> "none",
          cred |-> None]

\* the Bot after an initialize(storage_state) that returned True
InitializedBot(cred) ==
    [obj |-> TRUE, flag |-> TRUE, browser |-> TRUE, page |-> "open", cred |-> cred]

is_initialized(b) == b.flag /\ b.browser /\ b.page = "open"

\* a page that was closed makes goto() raise, which returns False
CanStartConversation(b) == b.page = "open"

\* the browser window is closed from outside, or the page crashes
PageCrash ==
    /\ pc \notin {"done", "raised"}
    /\ bot.obj /\ bot.page = "open"
    /\ crashes < MaxCrash
    /\ bot' = [bot EXCEPT !.page = "closed"]
    /\ crashes' = crashes + 1
    /\ UNCHANGED <<pc, attempt, result, playwright, last_prompt_time,
                   provider_closed, processed>>
    /\ UNCHANGED <<evals, final_evals, first_cit, all_ok, saves, finished,
                   polled_since, polls_after, orphans, inits>>
    /\ UNCHANGED <<obsVars, compVars, cfgVars, fspVars, sigVars, poolVars>>

\* ================================================================ bot.py
\* Leaving run(): the with block closes the prompt provider, the finally
\* clause restores the signal handlers and runs _cleanup.
Exit(kind) ==
    /\ pc' = kind
    /\ provider_closed' = TRUE
    /\ handler' = restored_handlers
    /\ bot' = NoBot
    /\ playwright' = FALSE
    /\ UNCHANGED <<shutdown, original, attempt, result, last_prompt_time,
                   processed>>

\* `continue` / falling off the end of the body of the attempt loop
\* mutant: range(1, max_attempts) written for range(1, max_attempts + 1)
NextAttempt_Short ==
    /\ attempt' = attempt + 1
    /\ pc' = IF attempt + 1 < max_attempts THEN "ensure" ELSE "final"

NextAttempt ==
    /\ attempt' = attempt + 1
    /\ pc' = IF attempt + 1 <= max_attempts THEN "ensure" ELSE "final"

\* run(): install the handlers and start the browser driver
Install ==
    /\ pc = "install"
    /\ install_signal_handlers
    /\ \E started \in BOOLEAN :
         /\ playwright' = started
         /\ pc' = IF started THEN "loop" ELSE "raised"
         /\ raised_by' = IF started THEN raised_by ELSE "playwright"
    /\ UNCHANGED <<shutdown, attempt, bot, result, last_prompt_time,
                   provider_closed, processed>>
    /\ UNCHANGED <<elapsed, shut_in_wait, idle_fired>>
    /\ UNCHANGED <<compVars, cfgVars, fspVars, poolVars, histVars>>

\* mutant: the loop also ends when _process_prompt returned False
LoopCheck_StopsOnFailure ==
    /\ pc = "loop"
    /\ IF shutdown \/ (finished /\ ~polled_since /\ Len(saves) > 0
                       /\ saves[Len(saves)].run = 0)
       THEN Exit("done")
       ELSE /\ pc' = "poll"
            /\ UNCHANGED <<attempt, bot, result, playwright, last_prompt_time,
                           provider_closed, processed, sigVars>>
    /\ UNCHANGED <<obsVars, compVars, cfgVars, fspVars, poolVars, histVars>>

\* mutant: `while True`, the shutdown event is never looked at
LoopCheck_IgnoresShutdown ==
    /\ pc = "loop"
    /\ pc' = "poll"
    /\ UNCHANGED <<attempt, bot, result, playwright, last_prompt_time,
                   provider_closed, processed, sigVars>>
    /\ UNCHANGED <<obsVars, compVars, cfgVars, fspVars, poolVars, histVars>>

\* PromptProvider.is_exhausted of a source that holds MaxPrompts prompts
is_exhausted == processed >= MaxPrompts

\* mutant: `while not should_shutdown and not is_exhausted`
LoopCheck_StopsWhenExhausted ==
    /\ pc = "loop"
    /\ IF shutdown \/ is_exhausted
       THEN Exit("done")
       ELSE /\ pc' = "poll"
            /\ UNCHANGED <<attempt, bot, result, playwright, last_prompt_time,
                           provider_closed, processed, sigVars>>
    /\ UNCHANGED <<obsVars, compVars, cfgVars, fspVars, poolVars, histVars>>

\* run(): `while not self._shutdown_handler.should_shutdown`
LoopCheck ==
    /\ pc = "loop"
    /\ IF shutdown
       THEN Exit("done")
       ELSE /\ pc' = "poll"
            /\ UNCHANGED <<attempt, bot, result, playwright, last_prompt_time,
                           provider_closed, processed, sigVars>>
    /\ UNCHANGED <<obsVars, compVars, cfgVars, fspVars, poolVars, histVars>>

PollCalled ==
    /\ polled_since' = TRUE
    /\ polls_after' = IF shutdown /\ polls_after < 2 THEN polls_after + 1
                      ELSE polls_after

\* run(): poll() returns a prompt
PollPrompt ==
    /\ pc = "poll"
    /\ processed < MaxPrompts
    /\ PollCalled
    /\ processed' = processed + 1
    /\ last_prompt_time' = TRUE
    /\ attempt' = 1
    /\ pc' = IF 1 <= max_attempts THEN "ensure" ELSE "final"
    /\ evals' = 0 /\ final_evals' = 0 /\ first_cit' = 0
    /\ all_ok' = TRUE /\ saves' = <<>> /\ finished' = FALSE
    /\ UNCHANGED <<bot, result, playwright, provider_closed,
                   crashes, orphans>>
    /\ inits' = 0
    /\ UNCHANGED <<obsVars, compVars, cfgVars, fspVars, sigVars, poolVars>>

\* mutant: `continue` without the idle check and the wait
PollNone_SkipsWait ==
    /\ pc = "poll"
    /\ PollCalled
    /\ pc' = "loop"
    /\ UNCHANGED <<attempt, bot, result, playwright, last_prompt_time,
                   provider_closed, processed>>
    /\ UNCHANGED <<evals, final_evals, first_cit, all_ok, saves, finished,
                   crashes, orphans, inits>>
    /\ UNCHANGED <<obsVars, compVars, cfgVars, fspVars, sigVars, poolVars>>

\* run(): poll() returns None
PollNone ==
    /\ pc = "poll"
    /\ PollCalled
    /\ pc' = "idle"
    /\ UNCHANGED <<attempt, bot, result, playwright, last_prompt_time,
                   provider_closed, processed>>
    /\ UNCHANGED <<evals, final_evals, first_cit, all_ok, saves, finished,
                   crashes, orphans, inits>>
    /\ UNCHANGED <<obsVars, compVars, cfgVars, fspVars, sigVars, poolVars>>

\* run(): poll() raises ApiProviderError
PollRaises ==
    /\ pc = "poll"
    /\ PollCalled
    /\ Exit("raised")
    /\ raised_by' = "poll"
    /\ UNCHANGED <<evals, final_evals, first_cit, all_ok, saves, finished,
                   crashes, orphans, inits>>
    /\ UNCHANGED <<elapsed, shut_in_wait, idle_fired>>
    /\ UNCHANGED <<compVars, cfgVars, fspVars, poolVars>>

\* mutant: the timer is reset but _reset_bot is not called
CheckIdleTimeout_KeepsBot ==
    /\ pc = "idle"
    /\ pc' = "wait"
    /\ IF last_prompt_time
       THEN \E exceeded \in BOOLEAN :
              IF exceeded
              THEN last_prompt_time' = FALSE /\ idle_fired' = TRUE
              ELSE UNCHANGED <<last_prompt_time, idle_fired>>
       ELSE UNCHANGED <<last_prompt_time, idle_fired>>
    /\ UNCHANGED <<attempt, bot, result, playwright, provider_closed, processed>>
    /\ UNCHANGED <<elapsed, shut_in_wait, raised_by>>
    /\ UNCHANGED <<compVars, cfgVars, fspVars, sigVars, poolVars, histVars>>

\* _check_idle_timeout; `exceeded` is false when no idle timeout is
\* configured and when the configured one has not yet passed
CheckIdleTimeout ==
    /\ pc = "idle"
    /\ pc' = "wait"
    /\ IF last_prompt_time
       THEN \E exceeded \in BOOLEAN :
              IF exceeded
              THEN bot' = NoBot /\ last_prompt_time' = FALSE /\ idle_fired' = TRUE
              ELSE UNCHANGED <<bot, last_prompt_time, idle_fired>>
       ELSE UNCHANGED <<bot, last_prompt_time, idle_fired>>
    /\ UNCHANGED <<attempt, result, playwright, provider_closed, processed>>
    /\ UNCHANGED <<elapsed, shut_in_wait, raised_by>>
    /\ UNCHANGED <<compVars, cfgVars, fspVars, sigVars, poolVars, histVars>>

\* poll_retry_seconds pass while run() is in the backoff wait
Tick ==
    /\ pc = "wait"
    /\ ~elapsed
    /\ elapsed' = TRUE
    /\ UNCHANGED <<shut_in_wait, raised_by, idle_fired>>
    /\ UNCHANGED <<compVars, cfgVars, fspVars, sigVars, poolVars, runVars, histVars>>

\* mutant: time.sleep(poll_retry_seconds), which the event does not end
Wait_PlainSleep ==
    /\ pc = "wait"
    /\ elapsed
    /\ pc' = "loop"
    /\ elapsed' = FALSE
    /\ UNCHANGED <<attempt, bot, result, playwright, last_prompt_time,
                   provider_closed, processed>>
    /\ UNCHANGED <<shut_in_wait, raised_by, idle_fired>>
    /\ UNCHANGED <<compVars, cfgVars, fspVars, sigVars, poolVars, histVars>>

\* shutdown_event.wait(timeout=poll_retry_seconds) returns: the event is
\* set or the timeout has passed
Wait ==
    /\ pc = "wait"
    /\ shutdown \/ elapsed
    /\ pc' = "loop"
    /\ elapsed' = FALSE
    /\ UNCHANGED <<attempt, bot, result, playwright, last_prompt_time,
                   provider_closed, processed>>
    /\ UNCHANGED <<shut_in_wait, raised_by, idle_fired>>
    /\ UNCHANGED <<compVars, cfgVars, fspVars, sigVars, poolVars, histVars>>

\* mutant: a failed initialize leaves the pool where it was
EnsureBotReady_NoRotate ==
    /\ pc = "ensure"
    /\ IF bot.obj /\ is_initialized(bot)
       THEN /\ pc' = "conv"
            /\ UNCHANGED <<attempt, bot, poolVars, all_ok, orphans, inits>>
       ELSE /\ orphans' = IF bot.obj /\ bot.browser THEN orphans + 1 ELSE orphans
            /\ inits' = inits + 1
            /\ \E ok \in BOOLEAN :
                 IF ok
                 THEN /\ bot' = InitializedBot(pool_index)
                      /\ pc' = "conv"
                      /\ UNCHANGED <<attempt, poolVars, all_ok>>
                 ELSE /\ bot' = NoBot
                      /\ UNCHANGED poolVars
                      /\ all_ok' = FALSE
                      /\ NextAttempt
    /\ UNCHANGED <<result, playwright, last_prompt_time, provider_closed,
                   processed>>
    /\ UNCHANGED <<evals, final_evals, first_cit, saves, finished,
                   polled_since, polls_after, crashes>>
    /\ UNCHANGED <<obsVars, compVars, cfgVars, fspVars, sigVars>>

\* _ensure_bot_ready inside the attempt loop
EnsureBotReady ==
    /\ pc = "ensure"
    /\ IF bot.obj /\ is_initialized(bot)
       THEN /\ pc' = "conv"
            /\ UNCHANGED <<attempt, bot, poolVars, all_ok, orphans, inits>>
       ELSE /\ orphans' = IF bot.obj /\ bot.browser THEN orphans + 1 ELSE orphans
            /\ inits' = inits + 1
            /\ \E ok \in BOOLEAN :
                 IF ok
                 THEN /\ bot' = InitializedBot(pool_index)
                      /\ pc' = "conv"
                      /\ UNCHANGED <<attempt, poolVars, all_ok>>
                 ELSE /\ bot' = NoBot
                      /\ pool_index' = PoolForceRotate(pool_index).index
                      /\ pool_usage' = PoolForceRotate(pool_index).usage
                      /\ all_ok' = FALSE
                      /\ NextAttempt
    /\ UNCHANGED <<result, playwright, last_prompt_time, provider_closed,
                   processed>>
    /\ UNCHANGED <<evals, final_evals, first_cit, saves, finished,
                   polled_since, polls_after, crashes>>
    /\ UNCHANGED <<obsVars, compVars, cfgVars, fspVars, sigVars>>

\* mutant: the return value of start_new_conversation is not looked at
StartConversation_Unchecked ==
    /\ pc = "conv"
    /\ \E ok \in BOOLEAN :
         /\ ok => CanStartConversation(bot)
         /\ pc' = "eval"
         /\ all_ok' = (all_ok /\ ok)
         /\ UNCHANGED <<attempt, bot>>
    /\ UNCHANGED <<result, playwright, last_prompt_time, provider_closed,
                   processed>>
    /\ UNCHANGED <<evals, final_evals, first_cit, saves, finished,
                   polled_since, polls_after, crashes, orphans, inits>>
    /\ UNCHANGED <<obsVars, compVars, cfgVars, fspVars, sigVars, poolVars>>

\* mutant: a failed start_new_conversation is tried again under the same
\* attempt number
StartConversation_SameSlot ==
    /\ pc = "conv"
    /\ \E ok \in BOOLEAN :
         /\ ok => CanStartConversation(bot)
         /\ IF ok
            THEN pc' = "eval" /\ UNCHANGED <<attempt, bot, all_ok>>
            ELSE /\ bot' = NoBot /\ all_ok' = FALSE
                 /\ pc' = "ensure" /\ UNCHANGED attempt
    /\ UNCHANGED <<result, playwright, last_prompt_time, provider_closed,
                   processed>>
    /\ UNCHANGED <<evals, final_evals, first_cit, saves, finished,
                   polled_since, polls_after, crashes, orphans, inits>>
    /\ UNCHANGED <<obsVars, compVars, cfgVars, fspVars, sigVars, poolVars>>

\* start_new_conversation inside the attempt loop
StartConversation ==
    /\ pc = "conv"
    /\ \E ok \in BOOLEAN :
         /\ ok => CanStartConversation(bot)
         /\ IF ok
            THEN pc' = "eval" /\ UNCHANGED <<attempt, bot, all_ok>>
            ELSE bot' = NoBot /\ all_ok' = FALSE /\ NextAttempt
    /\ UNCHANGED <<result, playwright, last_prompt_time, provider_closed,
                   processed>>
    /\ UNCHANGED <<evals, final_evals, first_cit, saves, finished,
                   polled_since, polls_after, crashes, orphans, inits>>
    /\ UNCHANGED <<obsVars, compVars, cfgVars, fspVars, sigVars, poolVars>>

EvalKinds == {"cit", "nocit", "err"}

\* no EvaluationResult: `result` is a local of _process_prompt; with the
\* result goes the credential of the Bot that produced it
NoResult == [kind |-> "none", k |-> 0, cred |-> None]

has_citations(r) == r.kind = "cit"

\* mutant: the Bot is kept when record_evaluation reports a rotation
Evaluated_KeepsBot(kind) ==
    LET recorded == PoolRecordEvaluation(pool_index, pool_usage)
        k == evals + final_evals + 1
    IN /\ result' = [kind |-> kind, k |-> k, cred |-> bot.cred]
       /\ first_cit' = IF kind = "cit" /\ first_cit = 0 THEN k ELSE first_cit
       /\ pool_index' = recorded.index
       /\ pool_usage' = recorded.usage
       /\ bot' = bot

\* evaluate and record_evaluation, common to the loop and the final retry
Evaluated(kind) ==
    LET recorded == PoolRecordEvaluation(pool_index, pool_usage)
        k == evals + final_evals + 1
    IN /\ result' = [kind |-> kind, k |-> k, cred |-> bot.cred]
       /\ first_cit' = IF kind = "cit" /\ first_cit = 0 THEN k ELSE first_cit
       /\ pool_index' = recorded.index
       /\ pool_usage' = recorded.usage
       /\ bot' = IF recorded.rotated THEN NoBot ELSE bot

\* evaluate raised RuntimeError("Bot not initialized"): run() is left
EvaluateRaises ==
    /\ Exit("raised")
    /\ raised_by' = "evaluate"
    /\ UNCHANGED <<elapsed, shut_in_wait, idle_fired>>
    /\ UNCHANGED <<compVars, cfgVars, fspVars, poolVars, histVars>>

\* evaluate, record_evaluation and the citation check of the attempt loop
Evaluate ==
    /\ pc = "eval"
    /\ IF ~is_initialized(bot)
       THEN EvaluateRaises
       ELSE /\ \E kind \in EvalKinds :
                 /\ Evaluated(kind)
                 /\ IF has_citations(result')
                    THEN pc' = "save" /\ UNCHANGED attempt
                    ELSE NextAttempt
            /\ evals' = evals + 1
            /\ UNCHANGED <<playwright, last_prompt_time, provider_closed,
                           processed>>
            /\ UNCHANGED <<final_evals, all_ok, saves, finished,
                           polled_since, polls_after, crashes, orphans, inits>>
            /\ UNCHANGED <<obsVars, compVars, cfgVars, fspVars, sigVars>>

\* save() returned: _process_prompt returns
Saved(run_number, res) ==
    /\ saves' = Append(saves, [run |-> run_number, kind |-> res.kind, k |-> res.k])
    /\ finished' = TRUE
    /\ polled_since' = FALSE
    /\ pc' = "loop"
    /\ attempt' = 0
    /\ result' = NoResult
    /\ UNCHANGED <<bot, playwright, last_prompt_time, provider_closed, processed>>
    /\ UNCHANGED <<evals, final_evals, first_cit, all_ok, polls_after,
                   crashes, orphans, inits>>
    /\ idle_fired' = FALSE
    /\ UNCHANGED <<elapsed, shut_in_wait, raised_by>>
    /\ UNCHANGED <<compVars, cfgVars, fspVars, sigVars, poolVars>>

\* save() raised PersistenceError: run() is left
SaveRaises ==
    /\ Exit("raised")
    /\ raised_by' = "save"
    /\ UNCHANGED <<elapsed, shut_in_wait, idle_fired>>
    /\ UNCHANGED <<compVars, cfgVars, fspVars, poolVars, histVars>>

\* mutant: the attempt number counted from 0
SaveSuccess_ZeroBased ==
    /\ pc = "save"
    /\ \/ Saved(attempt - 1, result)
       \/ SaveRaises

\* self._result_persister.save(prompt, result, attempt); return True
SaveSuccess ==
    /\ pc = "save"
    /\ \/ Saved(attempt, result)
       \/ SaveRaises

\* force_rotate, _reset_bot and _ensure_bot_ready of the final retry
FinalRotate ==
    /\ pc = "final"
    /\ LET forced == PoolForceRotate(pool_index) IN
       \E ok \in BOOLEAN :
         IF ok
         THEN /\ bot' = InitializedBot(forced.index)
              /\ pool_index' = forced.index
              /\ pool_usage' = forced.usage
              /\ pc' = "final_conv"
              /\ UNCHANGED all_ok
         ELSE /\ bot' = NoBot
              /\ pool_index' = PoolForceRotate(forced.index).index
              /\ pool_usage' = PoolForceRotate(forced.index).usage
              /\ pc' = "save_fail"
              /\ all_ok' = FALSE
    /\ UNCHANGED <<attempt, result, playwright, last_prompt_time,
                   provider_closed, processed>>
    /\ UNCHANGED <<evals, final_evals, first_cit, saves, finished,
                   polled_since, polls_after, crashes, orphans>>
    /\ inits' = inits + 1
    /\ UNCHANGED <<obsVars, compVars, cfgVars, fspVars, sigVars>>

\* start_new_conversation of the final retry
FinalConversation ==
    /\ pc = "final_conv"
    /\ \E ok \in BOOLEAN :
         /\ ok => CanStartConversation(bot)
         /\ IF ok
            THEN pc' = "final_eval" /\ UNCHANGED all_ok
            ELSE pc' = "save_fail" /\ all_ok' = FALSE
    /\ UNCHANGED <<attempt, bot, result, playwright, last_prompt_time,
                   provider_closed, processed>>
    /\ UNCHANGED <<evals, final_evals, first_cit, saves, finished,
                   polled_since, polls_after, crashes, orphans, inits>>
    /\ UNCHANGED <<obsVars, compVars, cfgVars, fspVars, sigVars, poolVars>>

\* evaluate, record_evaluation and the citation check of the final retry
FinalEvaluate ==
    /\ pc = "final_eval"
    /\ IF ~is_initialized(bot)
       THEN EvaluateRaises
       ELSE /\ \E kind \in EvalKinds :
                 /\ Evaluated(kind)
                 /\ pc' = IF has_citations(result') THEN "final_save" ELSE "save_fail"
            /\ final_evals' = final_evals + 1
            /\ UNCHANGED <<attempt, playwright, last_prompt_time,
                           provider_closed, processed>>
            /\ UNCHANGED <<evals, all_ok, saves, finished,
                           polled_since, polls_after, crashes, orphans, inits>>
            /\ UNCHANGED <<obsVars, compVars, cfgVars, fspVars, sigVars>>

\* self._result_persister.save(prompt, result, 1); return True
FinalSave ==
    /\ pc = "final_save"
    /\ \/ Saved(1, result)
       \/ SaveRaises

\* the EvaluationResult built at the end of _process_prompt
empty_result == [kind |-> "empty", k |-> 0, cred |-> None]

\* mutant: the failure record carries the last EvaluationResult
SaveFailure_LastResult ==
    /\ pc = "save_fail"
    /\ \/ Saved(0, result)
       \/ SaveRaises

\* self._result_persister.save(prompt, empty_result, run_number=0); return False
SaveFailure ==
    /\ pc = "save_fail"
    /\ \/ Saved(0, empty_result)
       \/ SaveRaises

\* ======================================= the collaborators on their own
\* ChatGPTBot.__init__, as create_bot returns it
NewBot == [obj |-> TRUE, flag |-> FALSE, browser |-> FALSE, page |-> "none",
           cred |-> None]

\* ChatGPTBot.close: the fields it leaves, and the driver calls it makes
close_fields(b) ==
    [b EXCEPT !.flag = FALSE, !.browser = FALSE, !.page = "none", !.cred = None]

close_calls(b, d) ==
    [d EXCEPT !.page_closes = IF b.page = "open" THEN @ + 1 ELSE @,
              !.browser_closes = IF b.browser THEN @ + 1 ELSE @]

\* how the try block of initialize is left: by `return True`, or by a failure
\* of launch(), of new_context(), of goto(), or of the authentication
InitOutcomes == {"ok", "launch", "context", "goto", "auth"}

initialize_try(b, cred, outcome) ==
    CASE outcome = "launch" -> b
      [] outcome = "context" -> [b EXCEPT !.browser = TRUE]
      [] outcome \in {"goto", "auth"} ->
            [b EXCEPT !.browser = TRUE, !.page = "open", !.cred = cred]
      [] OTHER -> InitializedBot(cred)

\* mutant: the failure paths return False without self.close()
initialize_fields_noclose(b, cred, outcome) ==
    initialize_try(close_fields(b), cred, outcome)

initialize_fields(b, cred, outcome) ==
    LET t == initialize_try(close_fields(b), cred, outcome)
    IN IF outcome = "ok" THEN t ELSE close_fields(t)

initialize_calls(b, d, cred, outcome) ==
    LET t == initialize_try(close_fields(b), cred, outcome)
        d1 == close_calls(b, d)
        d2 == [d1 EXCEPT !.launches = IF outcome = "launch" THEN @ ELSE @ + 1]
    IN IF outcome = "ok" THEN d2 ELSE close_calls(t, d2)

\* the EvaluationResult evaluate returns, by kind
EvaluationResultOf(kind) ==
    [success |-> kind \in {"cit", "nocit"},
     citations |-> kind = "cit",
     error_message |-> kind = "err"]

\* mutant: the is_initialized test left out, the failure caught as any other
evaluate_returns_unguarded(b) == IF is_initialized(b) THEN EvalKinds ELSE {"err"}

\* ChatGPTBot.evaluate: what a call can return or raise
evaluate_returns(b) == IF is_initialized(b) THEN EvalKinds ELSE {"RuntimeError"}

\* ChatGPTBot.start_new_conversation
start_new_conversation_returns(b) ==
    IF CanStartConversation(b) THEN {"True", "False"} ELSE {"False"}

BotCall(op, ret) ==
    /\ bot.obj
    /\ collab_calls < MaxCollabCalls
    /\ collab_calls' = collab_calls + 1
    /\ bot_last' = [op |-> op, ret |-> ret, pre |-> bot, driver |-> chromium]
    /\ bot_prev' = bot_last.op

\* ChatGPTBotFactory.create_bot
create_bot ==
    /\ ~bot.obj
    /\ bot' = NewBot
    /\ UNCHANGED <<chromium, bot_last, bot_prev, collab_calls>>

BotInitialize ==
    \E cred \in Sessions, outcome \in InitOutcomes :
        /\ BotCall("initialize", IF outcome = "ok" THEN "True" ELSE "False")
        /\ bot' = initialize_fields(bot, cred, outcome)
        /\ chromium' = initialize_calls(bot, chromium, cred, outcome)

BotEvaluate ==
    \E ret \in evaluate_returns(bot) :
        /\ BotCall("evaluate", ret)
        /\ UNCHANGED <<bot, chromium>>

BotStartConversation ==
    \E ret \in start_new_conversation_returns(bot) :
        /\ BotCall("start_new_conversation", ret)
        /\ UNCHANGED <<bot, chromium>>

BotClose ==
    /\ BotCall("close", "None")
    /\ bot' = close_fields(bot)
    /\ chromium' = close_calls(bot, chromium)

\* the page of the Bot is closed from outside
BotPageCrash ==
    /\ bot.obj /\ bot.page = "open"
    /\ bot' = [bot EXCEPT !.page = "closed"]
    /\ UNCHANGED <<chromium, bot_last, bot_prev, collab_calls>>

\* mutant: close() without the _closed test
session_close_unguarded(c) ==
    [closed |-> TRUE, session_closes |-> c.session_closes + 1, calls |-> c.calls + 1]

\* HttpApiPromptProvider.close / HttpApiResultPersister.close
session_close(c) ==
    IF ~c.closed
    THEN [closed |-> TRUE, session_closes |-> c.session_closes + 1,
          calls |-> c.calls + 1]
    ELSE [c EXCEPT !.calls = @ + 1]

PromptProviderClose ==
    /\ collab_calls < MaxCollabCalls
    /\ collab_calls' = collab_calls + 1
    /\ pp' = session_close(pp)
    /\ UNCHANGED rp

ResultPersisterClose ==
    /\ collab_calls < MaxCollabCalls
    /\ collab_calls' = collab_calls + 1
    /\ rp' = session_close(rp)
    /\ UNCHANGED pp

\* HttpApi*.__init__
OpenClient == [closed |-> FALSE, session_closes |-> 0, calls |-> 0]

NoDriverCalls == [launches |-> 0, browser_closes |-> 0, page_closes |-> 0]

\* ============================== prompt_provider.py / result_persister.py
\* The statuses raise_for_status() raises HTTPError for are 400..599.
ErrorStatuses == {400, 404, 499, 500, 503, 599}

\* The body of a 2xx response: a JSON object with a prompt, the object with
\* null fields, another JSON object, a JSON array, the JSON null, or text
\* that is not JSON.
Bodies == {"prompt", "empty", "object", "array", "null", "invalid"}

\* How self._session.post(...), raise_for_status() and json() can go.
Responses ==
    [kind : {"Timeout", "RequestException"}, status : {0}, body : {"none"}]
    \cup [kind : {"HTTPError"}, status : ErrorStatuses, body : {"none"}]
    \cup [kind : {"ok"}, status : {200}, body : Bodies]

NoResponse == [kind |-> "none", status |-> 0, body |-> "none"]

\* str(e.args[0])[0:3]: the message raise_for_status() builds starts with
\* the three digits of the status ("404 Client Error: ...")
msg_digits(r) == <<r.status \div 100, (r.status \div 10) % 10, r.status % 10>>

\* The status the except HTTPError clause works with.  e.response is a
\* Response, whose truth value is its `ok`: it is false for every response
\* raise_for_status() raised for, so the status is parsed from the message.
status_code(r) ==
    LET d == msg_digits(r) IN d[1] * 100 + d[2] * 10 + d[3]

\* mutant: client errors are retried like server errors
is_client_error_never(sc) == FALSE

\* `status_code and 400 <= status_code < 500`
is_client_error(sc) == sc # 0 /\ 400 <= sc /\ sc < 500

\* mutant: `attempt <= attempts` written for `attempt < attempts`
retry_or_raise_late(att, attempts, error) ==
    IF att <= attempts THEN "continue" ELSE error

\* `if attempt < attempts: sleep; continue` / `raise error`
retry_or_raise(att, attempts, error) ==
    IF att < attempts THEN "continue" ELSE error

\* poll(): what is made of the parsed body of a 2xx response
poll_body(b) ==
    CASE b = "invalid" -> "ApiProviderError"          \* json() raised ValueError
      [] b \in {"object", "array"} -> "ApiProviderError"   \* fields missing
      [] b = "null" -> "TypeError"                    \* `in` on None
      [] b = "empty" -> "None"
      [] OTHER -> "Prompt"

\* poll(): how one pass of the retry loop ends
poll_attempt(r, att) ==
    CASE r.kind = "Timeout" ->
            retry_or_raise(att, retry_attempts, "ApiProviderError")
      [] r.kind = "HTTPError" ->
            IF is_client_error(status_code(r))
            THEN "ApiProviderError"
            ELSE retry_or_raise(att, retry_attempts, "ApiProviderError")
      [] r.kind = "RequestException" ->
            retry_or_raise(att, retry_attempts, "ApiProviderError")
      [] OTHER -> poll_body(r.body)

\* data.get(...) in the debug message of _submit_answer / _release_evaluation
data_get(b) == IF b \in {"array", "null"} THEN "AttributeError" ELSE "return"

\* mutant: a transient failure of submit is raised at once
submit_attempt_noretry(r, att) ==
    CASE r.kind \in {"Timeout", "HTTPError", "RequestException"} -> "PersistenceError"
      [] OTHER -> IF r.body = "invalid" THEN "PersistenceError"
                  ELSE data_get(r.body)

\* _submit_answer: how one pass of the retry loop ends
submit_attempt(r, att) ==
    CASE r.kind = "Timeout" ->
            retry_or_raise(att, submit_retry_attempts, "PersistenceError")
      [] r.kind = "HTTPError" ->
            IF is_client_error(status_code(r))
            THEN "PersistenceError"
            ELSE retry_or_raise(att, submit_retry_attempts, "PersistenceError")
      [] r.kind = "RequestException" ->
            retry_or_raise(att, submit_retry_attempts, "PersistenceError")
      [] OTHER -> IF r.body = "invalid" THEN "PersistenceError"
                  ELSE data_get(r.body)

\* _release_evaluation: how its single request ends
release_evaluation(r) ==
    CASE r.kind \in {"Timeout", "HTTPError", "RequestException"} -> "return"
      [] r.body = "invalid" -> "return"
      [] OTHER -> data_get(r.body)

\* save(): `except PersistenceError: raise`, `except Exception: raise
\* PersistenceError(...)`
save_except(end) ==
    IF end \in {"AttributeError", "TypeError"} THEN "PersistenceError" ELSE end

\* `result.error_message or "Evaluation failed without specific reason"`
failure_reason(error_message) ==
    IF error_message THEN "error_message" ELSE "default"

Endpoints == {"poll", "submit", "release"}

\* no poll() or save() call has been made
NoCall == [op |-> "none", closed |-> FALSE, run_number |-> 0,
           evaluation_id |-> FALSE,
           error_message |-> FALSE, attempt |-> 0,
           requests |-> [e \in Endpoints |-> 0], last |-> NoResponse,
           failure_reason |-> "none", outcome |-> "none"]

\* the clients are called from one thread: a call starts when none is running
HttpIdle == http.outcome # "running"

\* one request was sent to `endpoint` and answered by r; the pass ends in `end`
Request(endpoint, r, end) ==
    [http EXCEPT !.requests[endpoint] = @ + 1,
                 !.last = r,
                 !.attempt = IF end = "continue" THEN @ + 1 ELSE @,
                 !.outcome = IF end = "continue" THEN "running" ELSE end]

\* mutant: the loop runs over range(0, retry_attempts + 1)
PollFromZero ==
    /\ HttpIdle
    /\ http' = LET c == [NoCall EXCEPT !.op = "poll", !.closed = pp.closed] IN
               IF pp.closed THEN [c EXCEPT !.outcome = "ApiProviderError"]
               ELSE [c EXCEPT !.outcome = "running", !.attempt = 0]

\* poll(), up to its retry loop: range(1, retry_attempts + 1) is empty when
\* retry_attempts < 1, and the function then returns None off its end
Poll ==
    /\ HttpIdle
    /\ http' = LET c == [NoCall EXCEPT !.op = "poll", !.closed = pp.closed] IN
               IF pp.closed THEN [c EXCEPT !.outcome = "ApiProviderError"]
               ELSE IF retry_attempts < 1 THEN [c EXCEPT !.outcome = "None"]
               ELSE [c EXCEPT !.outcome = "running", !.attempt = 1]

\* one pass of the retry loop of poll()
PollAttempt ==
    /\ http.op = "poll" /\ http.outcome = "running"
    /\ \E r \in Responses :
         http' = Request("poll", r, poll_attempt(r, http.attempt))

\* the run numbers save() is called with: 0 for a failure, the attempt number
RunNumbers == 0 .. MaxAttempts

\* save(), up to the first request: the closed test, the evaluation_id test
\* and the choice of the endpoint; range(1, submit_retry_attempts + 1) is
\* empty when submit_retry_attempts < 1, and _submit_answer then returns
Save ==
    /\ HttpIdle
    /\ \E run_number \in RunNumbers, evaluation_id \in BOOLEAN,
          error_message \in BOOLEAN :
         http' = LET c == [NoCall EXCEPT !.op = "save",
                                         !.closed = rp.closed,
                                         !.run_number = run_number,
                                         !.evaluation_id = evaluation_id,
                                         !.error_message = error_message]
                 IN IF rp.closed THEN [c EXCEPT !.outcome = "PersistenceError"]
                    ELSE IF ~evaluation_id THEN [c EXCEPT !.outcome = "return"]
                    ELSE IF run_number > 0 /\ submit_retry_attempts < 1
                         THEN [c EXCEPT !.outcome = "return"]
                         ELSE [c EXCEPT !.outcome = "running", !.attempt = 1]

\* one pass of the retry loop of _submit_answer
SubmitAttempt ==
    /\ http.op = "save" /\ http.outcome = "running" /\ http.run_number > 0
    /\ \E r \in Responses :
         http' = Request("submit", r, save_except(submit_attempt(r, http.attempt)))

\* the request of _release_evaluation
ReleaseEvaluation ==
    /\ http.op = "save" /\ http.outcome = "running" /\ http.run_number <= 0
    /\ \E r \in Responses :
         http' = [Request("release", r, save_except(release_evaluation(r)))
                    EXCEPT !.failure_reason = failure_reason(http.error_message)]

\* ======================================== chatgpt/citation_extractor.py
\* A URL or href is a sequence of pieces of text; a string starts with
\* "http" or "/" when that is its first piece.
Origin == <<"http", "s://", "chatgpt.com">>        \* "https://chatgpt.com"

\* the href attributes a link of the panel can carry; <<>> is a link with
\* no href, for which `link.get_attribute('href') or ""` is ""
Hrefs ==
    { <<>>,
      <<"http", "s://", "example.com", "/", "a">>,
      <<"http", "://", "example.org">>,
      <<"/", "c/1">>,
      <<"/", "/cdn.example.com">>,
      <<"/", "s?", "utm_source=chatgpt">>,
      <<"page.html">>,
      <<"http", "-guide.html">> }

\* an <a> element: its href, its target attribute, and whether it is the
\* child of an <li> of a <ul>, elsewhere below a <ul>, or outside any list
Links == [href : Hrefs, target_blank : BOOLEAN, within : {"li", "ul", "none"}]

\* the lines of panel.inner_text(): empty, a short line without a URL, a
\* line holding a URL, a line of 50 characters or more without a URL
LineKinds == {"blank", "name", "url", "long"}

\* the URL of a "url" line, as the regular expression https?://[^\s\)]+ finds it
UrlInText == <<"http", "s://", "example.com", "/", "a">>

NoUrlFound == <<"No URL found">>

startswith(u, piece) == Len(u) > 0 /\ u[1] = piece

\* the CSS selectors the extractor uses, applied to one link
Matches(selector, l) ==
    CASE selector = "ul > li > a[href^=http]" ->
            l.within = "li" /\ startswith(l.href, "http")
      [] selector = "a[target=_blank]" -> l.target_blank
      [] selector = "a[href*=utm_source=chatgpt]" ->
            \E i \in 1 .. Len(l.href) : l.href[i] = "utm_source=chatgpt"
      [] selector = "ul a[href^=http]" ->
            l.within \in {"li", "ul"} /\ startswith(l.href, "http")
      [] selector = "a[href^=http]" -> startswith(l.href, "http")
      [] selector \in {"a[href]", "[href], [role=link]"} -> Len(l.href) > 0
      [] selector = "li a, [role=listitem] a" -> l.within = "li"
      [] OTHER -> TRUE                                  \* "a"

\* panel.locator(selector).all()
locator_all(p, selector) == SelectSeq(p.links, LAMBDA l : Matches(selector, l))

\* the first selector of the list, from position i, that finds links
RECURSIVE first_links(_, _, _)
first_links(p, selectors, i) ==
    IF i > Len(selectors) THEN <<>>
    ELSE IF locator_all(p, selectors[i]) # <<>>
         THEN locator_all(p, selectors[i])
         ELSE first_links(p, selectors, i + 1)

link_patterns ==
    << "ul > li > a[href^=http]", "a[target=_blank]",
       "a[href*=utm_source=chatgpt]", "ul a[href^=http]" >>

link_strategies ==
    << "a[href^=http]", "a[target=_blank]", "a[href*=utm_source=chatgpt]",
       "ul a[href^=http]", "a[href]", "a", "li a, [role=listitem] a",
       "[href], [role=link]" >>

\* _extract_from_list_structure: the href is stored as it is read
extract_from_list_structure(p) ==
    LET links == first_links(p, link_patterns, 1)
    IN [i \in 1 .. Len(links) |-> [url |-> links[i].href, number |-> i]]

\* _parse_links, "Handle relative URLs"
relative_url(url) ==
    IF url # <<>> /\ ~startswith(url, "http")
    THEN IF startswith(url, "/") THEN Origin \o url ELSE url
    ELSE url

parse_links(links) ==
    [i \in 1 .. Len(links) |-> [url |-> relative_url(links[i].href), number |-> i]]

\* _extract_from_text: the loop over the lines.  cur is current_citation
\* (which of its keys are set), parsed is citations_parsed (for each entry,
\* whether it has a url).
RECURSIVE parse_lines(_, _, _, _)
parse_lines(lines, i, cur, parsed) ==
    IF i > Len(lines)
    THEN IF cur.name THEN Append(parsed, cur.url) ELSE parsed
    ELSE CASE lines[i] = "blank" ->
                 IF cur.name
                 THEN parse_lines(lines, i + 1, [name |-> FALSE, url |-> FALSE],
                                  Append(parsed, cur.url))
                 ELSE parse_lines(lines, i + 1, cur, parsed)
           [] lines[i] = "url" ->
                 parse_lines(lines, i + 1, [cur EXCEPT !.url = TRUE], parsed)
           [] lines[i] = "name" ->
                 parse_lines(lines, i + 1, [cur EXCEPT !.name = TRUE], parsed)
           [] OTHER -> parse_lines(lines, i + 1, cur, parsed)

\* _extract_from_text
extract_from_text(p) ==
    LET parsed == parse_lines(p.text, 1, [name |-> FALSE, url |-> FALSE], <<>>)
        urls == SelectSeq(p.text, LAMBDA line : line = "url")
    IN IF parsed # <<>>
       THEN [i \in 1 .. Len(parsed) |->
                [url |-> IF parsed[i] THEN UrlInText ELSE NoUrlFound, number |-> i]]
       ELSE [i \in 1 .. Len(urls) |-> [url |-> UrlInText, number |-> i]]

\* _extract_from_panel
extract_from_panel(p) ==
    IF extract_from_list_structure(p) # <<>>
    THEN extract_from_list_structure(p)
    ELSE IF first_links(p, link_strategies, 1) # <<>>
         THEN parse_links(first_links(p, link_strategies, 1))
         ELSE extract_from_text(p)

RECURSIVE SeqsUpTo(_, _)
SeqsUpTo(S, n) ==
    IF n = 0 THEN {<<>>}
    ELSE LET shorter == SeqsUpTo(S, n - 1)
         IN shorter \cup {Append(s, x) : s \in shorter, x \in S}

\* the panels explored: some links, or no link and some text
Panels ==
    [links : SeqsUpTo(Links, MaxLinks), text : {<<>>}]
    \cup [links : {<<>>}, text : SeqsUpTo(LineKinds, MaxLines)]

EmptyPanel == [links |-> <<>>, text |-> <<>>]

NotExtracted == [extracted |-> FALSE, list |-> <<>>]

\* CitationExtractor.extract, once its panel is found
Extract ==
    /\ ~citations.extracted
    /\ citations' = [extracted |-> TRUE, list |-> extract_from_panel(panel)]
    /\ UNCHANGED panel

\* the handlers a process can have in place for a signal
HandlerKinds == {"default_int_handler", "custom", "SIG_DFL", "SIG_IGN"}

SigInstall ==
    /\ install_signal_handlers
    /\ sig_last' = "install"
    /\ sig_before' = handler
    /\ UNCHANGED shutdown

SigRestore ==
    /\ handler' = restored_handlers
    /\ sig_last' = IF sig_last = "install" THEN "install, restore" ELSE "restore"
    /\ UNCHANGED <<shutdown, original, sig_before>>

\* a signal is delivered while _handle_signal is installed for it
SigDeliver(sig) ==
    /\ handler[sig] = "_handle_signal"
    /\ ~shutdown
    /\ shutdown' = TRUE
    /\ UNCHANGED <<handler, original, sig_last, sig_before>>

CompInit ==
    /\ chromium = NoDriverCalls
    /\ bot_last = [op |-> "init", ret |-> "None", pre |-> NoBot,
                   driver |-> NoDriverCalls]
    /\ bot_prev = "init"
    /\ collab_calls = 0
    /\ pp = OpenClient
    /\ rp = OpenClient
    /\ sig_last = "init"
    /\ sig_before = [sig \in Signals |-> "None"]
    /\ http = NoCall
    /\ citations = NotExtracted

\* -------------------------------------------------------- construction
CfgInit ==
    /\ N \in 1 .. MaxSessions
    /\ max_usage \in 1 .. MaxUsage
    /\ max_attempts \in 0 .. MaxAttempts

\* the handlers of a Python process that has installed none
DefaultHandlers ==
    [sig \in Signals |-> IF sig = "SIGINT" THEN "default_int_handler" ELSE "SIG_DFL"]

OrchInit ==
    /\ shutdown = FALSE
    /\ original = [sig \in Signals |-> "None"]
    /\ pool_index = 0
    /\ pool_usage = 0
    /\ pc = "install"
    /\ attempt = 0
    /\ bot = NoBot
    /\ result = NoResult
    /\ playwright = FALSE
    /\ last_prompt_time = FALSE
    /\ provider_closed = FALSE
    /\ processed = 0
    /\ evals = 0 /\ final_evals = 0 /\ first_cit = 0
    /\ all_ok = TRUE /\ saves = <<>> /\ finished = FALSE
    /\ polled_since = FALSE /\ polls_after = 0
    /\ crashes = 0 /\ orphans = 0 /\ inits = 0
    /\ elapsed = FALSE /\ shut_in_wait = FALSE
    /\ raised_by = "none" /\ idle_fired = FALSE
    /\ CompInit

\* the retry_attempts / submit_retry_attempts defaults of the two clients
HttpDefaults == retry_attempts = 3 /\ submit_retry_attempts = 3

RunInit ==
    /\ handler = DefaultHandlers
    /\ OrchInit
    /\ HttpDefaults
    /\ panel = EmptyPanel
    /\ panel = EmptyPanel

Init == CfgInit /\ FspInit /\ RunInit

\* The FileSessionProvider on its own: the Orchestrator's configuration
\* plays no part.
PoolInit ==
    /\ N \in 1 .. MaxSessions
    /\ max_usage \in 1 .. MaxUsage
    /\ max_attempts = 1
    /\ FspInit
    /\ RunInit

vars == <<cfgVars, fspVars, sigVars, poolVars, runVars, histVars,
          obsVars, compVars>>

PoolNext ==
    /\ UNCHANGED <<obsVars, compVars, cfgVars, sigVars, poolVars, runVars, histVars>>
    /\ \/ get_session
       \/ \E s \in 0 .. N : record_evaluation(s)
       \/ \E s \in 0 .. N : mark_invalid(s)
       \/ \E s \in 0 .. N : reset_session(s)

PoolSpec == PoolInit /\ [][PoolNext]_vars

\* A Bot and the two HTTP clients, called in any order.
CollabInit ==
    /\ N \in 1 .. MaxSessions
    /\ max_usage = 1
    /\ max_attempts = 1
    /\ FspInit
    /\ RunInit

CollabNext ==
    /\ UNCHANGED <<cfgVars, fspVars, sigVars, poolVars, histVars, obsVars>>
    /\ UNCHANGED <<pc, attempt, result, playwright, last_prompt_time,
                   provider_closed, processed, sig_last, sig_before>>
    /\ UNCHANGED <<httpVars, extractVars>>
    /\ \/ create_bot /\ UNCHANGED <<pp, rp>>
       \/ BotInitialize /\ UNCHANGED <<pp, rp>>
       \/ BotEvaluate /\ UNCHANGED <<pp, rp>>
       \/ BotStartConversation /\ UNCHANGED <<pp, rp>>
       \/ BotClose /\ UNCHANGED <<pp, rp>>
       \/ BotPageCrash /\ UNCHANGED <<pp, rp>>
       \/ PromptProviderClose /\ UNCHANGED <<bot, chromium, bot_last, bot_prev>>
       \/ ResultPersisterClose /\ UNCHANGED <<bot, chromium, bot_last, bot_prev>>

CollabSpec == CollabInit /\ [][CollabNext]_vars

\* The ShutdownHandler on its own, in a process with any handlers in place.
SignalInit ==
    /\ N = 1 /\ max_usage = 1 /\ max_attempts = 1
    /\ FspInit
    /\ handler \in [Signals -> HandlerKinds]
    /\ OrchInit
    /\ HttpDefaults
    /\ panel = EmptyPanel

SignalNext ==
    /\ UNCHANGED <<cfgVars, fspVars, poolVars, runVars, histVars, obsVars>>
    /\ UNCHANGED <<chromium, bot_last, bot_prev, collab_calls, pp, rp>>
    /\ UNCHANGED <<httpVars, extractVars>>
    /\ \/ SigInstall
       \/ SigRestore
       \/ \E sig \in Signals : SigDeliver(sig)

SignalSpec == SignalInit /\ [][SignalNext]_vars

\* The two HTTP clients on their own, with any retry configuration.
HttpInit ==
    /\ N = 1 /\ max_usage = 1 /\ max_attempts = 1
    /\ FspInit
    /\ handler = DefaultHandlers
    /\ OrchInit
    /\ retry_attempts \in 0 .. MaxRetry
    /\ submit_retry_attempts \in 0 .. MaxRetry
    /\ panel = EmptyPanel

HttpNext ==
    /\ UNCHANGED <<cfgVars, fspVars, sigVars, poolVars, runVars, histVars, obsVars>>
    /\ UNCHANGED <<chromium, bot_last, bot_prev, sig_last, sig_before>>
    /\ UNCHANGED <<retry_attempts, submit_retry_attempts, extractVars>>
    /\ \/ Poll /\ UNCHANGED <<collab_calls, pp, rp>>
       \/ PollAttempt /\ UNCHANGED <<collab_calls, pp, rp>>
       \/ Save /\ UNCHANGED <<collab_calls, pp, rp>>
       \/ SubmitAttempt /\ UNCHANGED <<collab_calls, pp, rp>>
       \/ ReleaseEvaluation /\ UNCHANGED <<collab_calls, pp, rp>>
       \/ HttpIdle /\ PromptProviderClose /\ UNCHANGED http
       \/ HttpIdle /\ ResultPersisterClose /\ UNCHANGED http

HttpSpec == HttpInit /\ [][HttpNext]_vars

\* The citation extractor on its own, applied to any panel.
ExtractInit ==
    /\ N = 1 /\ max_usage = 1 /\ max_attempts = 1
    /\ FspInit
    /\ handler = DefaultHandlers
    /\ OrchInit
    /\ HttpDefaults
    /\ panel \in Panels

ExtractNext ==
    /\ UNCHANGED <<cfgVars, fspVars, sigVars, poolVars, runVars, histVars, obsVars>>
    /\ UNCHANGED <<chromium, bot_last, bot_prev, collab_calls, pp, rp,
                   sig_last, sig_before, httpVars>>
    /\ Extract

ExtractSpec == ExtractInit /\ [][ExtractNext]_vars

\* the steps of run() and _process_prompt()
RunStep ==
    \/ Install
    \/ LoopCheck
    \/ PollPrompt
    \/ PollNone
    \/ PollRaises
    \/ CheckIdleTimeout
    \/ Wait
    \/ EnsureBotReady
    \/ StartConversation
    \/ Evaluate
    \/ SaveSuccess
    \/ FinalRotate
    \/ FinalConversation
    \/ FinalEvaluate
    \/ FinalSave
    \/ SaveFailure

Environment ==
    \/ \E sig \in Signals : HandleSignal(sig)
    \/ RequestShutdown
    \/ PageCrash
    \/ Tick

Next == RunStep \/ Environment

Spec == Init /\ [][Next]_vars

\* run() is a single thread that always takes its next step: every call it
\* makes returns or raises.  The size of the pool plays no part in how the
\* loop is left, so the fair runs are explored with a single session.
FairInit == Init /\ N = 1

FairSpec == FairInit /\ [][Next]_vars /\ WF_vars(RunStep)
\* ====================================================== retry protocol
Exited == pc \in {"done", "raised"}

\* the save that ended the prompt, when _process_prompt has returned
LastSave == saves[Len(saves)]

\* C1: when no initialize and no start_new_conversation has failed and the
\* k-th evaluate call of the prompt (1 <= k <= max_attempts) is the first to
\* return citations, no evaluate call follows it, and once _process_prompt
\* has returned the sink holds exactly one save for the prompt: that k-th
\* result with run_number k.
C1_SuccessOnKthAttempt ==
    (all_ok /\ first_cit \in 1 .. max_attempts) =>
        /\ evals + final_evals = first_cit
        /\ Len(saves) <= 1
        /\ finished => saves = <<[run |-> first_cit, kind |-> "cit", k |-> first_cit]>>

C1_Witness ==
    /\ finished /\ all_ok /\ first_cit = 2
    /\ saves = <<[run |-> 2, kind |-> "cit", k |-> 2]>>

\* C2: when no initialize and no start_new_conversation has failed and no
\* evaluate call returned citations, _process_prompt returns after exactly
\* max_attempts evaluate calls in the attempt loop and exactly one evaluate
\* call in the forced-rotation retry, with exactly one save, of run_number 0.
C2_ExhaustionThenFailure ==
    (finished /\ all_ok /\ first_cit = 0) =>
        /\ evals = max_attempts
        /\ final_evals = 1
        /\ saves = <<[run |-> 0, kind |-> "empty", k |-> 0]>>

C2_Witness ==
    /\ finished /\ all_ok /\ first_cit = 0
    /\ max_attempts = 2 /\ evals = 2 /\ final_evals = 1
    /\ Len(saves) = 1 /\ LastSave.run = 0

\* C3: after the save with run_number 0 has returned, run() has neither
\* returned nor raised unless shutdown was requested: until the next poll()
\* call is started it is at the loop test or about to call poll(), or it
\* has left the loop normally with the shutdown event set.
RecordedFailure == finished /\ Len(saves) > 0 /\ LastSave.run = 0

C3_FailureDoesNotStopRun ==
    (RecordedFailure /\ ~polled_since) =>
        \/ pc \in {"loop", "poll"}
        \/ pc = "done" /\ shutdown

C3_Witness == RecordedFailure /\ ~polled_since /\ pc = "poll" /\ ~shutdown

\* C10: once the shutdown event is set, run() starts at most one more
\* poll() call, and (every call it makes returning) it leaves the loop.
C10_ShutdownStopsRun ==
    /\ [](polls_after <= 1)
    /\ (shutdown ~> Exited)

C10_Witness == shutdown /\ polls_after = 1 /\ pc = "done"
\* ======================================================= the run loop
\* C11: when shutdown is requested during the backoff wait, before its
\* timeout has passed, run() goes from the wait to the loop test and out of
\* the loop: no poll() call is started, and the wait returns whether or not
\* the timeout ever passes.
C11_ShutdownEndsWait ==
    /\ [](shut_in_wait => (pc \in {"wait", "loop", "done"} /\ polls_after = 0))
    /\ (shut_in_wait ~> pc = "done")

C11_Witness == shut_in_wait /\ ~elapsed /\ pc = "done" /\ polls_after = 0

\* C12 as stated: when run() has returned after a shutdown request, the Bot
\* is closed and the prompt provider and the result persister are closed.
C12_AsStated ==
    (pc = "done" /\ shutdown) => (~bot.obj /\ provider_closed /\ rp.closed)

\* C14 as stated: an exception raised by poll() or save() does not end run().
C14_AsStated == pc = "raised" => raised_by \notin {"poll", "save"}

\* C15 as stated: once the source is exhausted and its last prompt has been
\* dealt with, no further poll() call is started.
C15_AsStated == (is_exhausted /\ finished) => ~polled_since

\* C15: run() does not look at is_exhausted: it returns only with the
\* shutdown event set, and at the loop test of a run whose source is
\* exhausted it goes on to poll() unless shutdown was requested.
C15_RunEndsOnlyOnShutdown ==
    /\ [](pc = "done" => shutdown)
    /\ [][(is_exhausted /\ pc = "loop" /\ ~shutdown) => pc' \in {"loop", "poll"}]_vars

C15_Witness == is_exhausted /\ finished /\ polled_since /\ pc = "poll" /\ ~shutdown

\* the calls a null poll must not cause: initialize, evaluate,
\* record_evaluation, save
NoWorkDone ==
    /\ ~(~is_initialized(bot) /\ is_initialized(bot'))
    /\ UNCHANGED <<evals, final_evals, saves, poolVars, fspVars>>

\* C16: a poll() that returns None leads to the idle check, one backoff wait
\* and the loop test, from which (unless shutdown was requested) poll() is
\* called again; on the way no initialize, evaluate, record_evaluation or
\* save call is made.
C16_NullPollBacksOff ==
    [][/\ (pc = "poll" /\ pc' # "poll" /\ processed' = processed)
            => (pc' \in {"idle", "raised"} /\ NoWorkDone)
       /\ pc = "idle" => (pc' \in {"idle", "wait"} /\ NoWorkDone)
       /\ pc = "wait" => (pc' \in {"wait", "loop"} /\ NoWorkDone)
       /\ (pc = "loop" /\ polled_since)
            => /\ pc' \in {"loop", "poll", "done"}
               /\ pc' = "poll" => ~shutdown
               /\ pc' = "done" => shutdown
               /\ NoWorkDone]_vars

C16_Witness == pc = "poll" /\ polled_since /\ ~shutdown /\ processed = 1

\* C17: the idle timeout fires only in the idle check of a null poll; it
\* closes the Bot and leaves the pool's index and counters alone; no Bot
\* exists until the next prompt, which is evaluated by a Bot initialized
\* with the session the pool is at.
C17_IdleTimeoutKeepsPool ==
    /\ [][(last_prompt_time /\ ~last_prompt_time')
            => /\ pc = "idle"
               /\ bot' = NoBot
               /\ UNCHANGED <<poolVars, fspVars, orphans>>]_vars
    /\ [](idle_fired =>
            /\ pc \in {"idle", "wait", "loop", "poll"} => ~bot.obj
            /\ (pc \in {"eval", "final_eval"} /\ is_initialized(bot))
                  => bot.cred = pool_index)

C17_Witness == idle_fired /\ pc = "eval" /\ is_initialized(bot) /\ pool_usage > 0

\* ==================================================== ShutdownHandler
\* C13 as stated: after install_signal_handlers followed by
\* restore_signal_handlers both signals have the handler they had before.
C13_AsStated == sig_last = "install, restore" => handler = sig_before

\* ========================================================= ChatGPTBot
\* C18 as stated: evaluate returns a result in every Bot state, never raises.
C18_AsStated == bot_last.op = "evaluate" => bot_last.ret \in EvalKinds

\* C18: evaluate on a Bot whose is_initialized is true returns a result, a
\* failed evaluation having success false, an error message and no
\* citations; on a Bot that is not initialized (never initialized, closed,
\* or with its page closed) it raises RuntimeError.
C18_EvaluateResult ==
    bot_last.op = "evaluate" =>
        IF is_initialized(bot_last.pre)
        THEN /\ bot_last.ret \in EvalKinds
             /\ LET r == EvaluationResultOf(bot_last.ret)
                IN ~r.success => (r.error_message /\ ~r.citations)
        ELSE bot_last.ret = "RuntimeError"

C18_Witness ==
    /\ bot_last.op = "evaluate" /\ bot_last.ret = "RuntimeError"
    /\ bot_last.pre.page = "closed" /\ bot_last.pre.flag

\* C19: initialize returns True or False; after False the Bot is not
\* initialized and holds no browser and no page, after True it is
\* initialized; a browser the Bot held before the call has been closed.
C19_InitializeNeverRaises ==
    bot_last.op = "initialize" =>
        /\ bot_last.ret \in {"True", "False"}
        /\ bot_last.ret = "False" =>
              (~bot.flag /\ ~bot.browser /\ bot.page = "none" /\ ~is_initialized(bot))
        /\ bot_last.ret = "True" => (bot.flag /\ bot.browser /\ bot.page # "none")
        /\ bot_last.pre.browser =>
              chromium.browser_closes > bot_last.driver.browser_closes
        /\ chromium.launches - chromium.browser_closes = IF bot.browser THEN 1 ELSE 0

C19_Witness ==
    /\ bot_last.op = "initialize" /\ bot_last.ret = "False"
    /\ bot_last.pre.browser /\ chromium.browser_closes = 2

\* C20: a close() that follows a close() on the Bot, and a close() on a Bot
\* that never launched a browser, change nothing and make no driver call;
\* however often close() is called on the prompt provider or the result
\* persister, its HTTP session is closed exactly once.
C20_CloseIdempotent ==
    /\ (bot_last.op = "close" /\ (bot_prev = "close" \/ chromium.launches = 0))
          => (bot = bot_last.pre /\ chromium = bot_last.driver)
    /\ pp.calls >= 1 => (pp.closed /\ pp.session_closes = 1)
    /\ rp.calls >= 1 => (rp.closed /\ rp.session_closes = 1)

C20_Witness ==
    /\ bot_last.op = "close" /\ bot_prev = "close" /\ chromium.browser_closes = 1
    /\ pp.calls = 2
\* ================================================= FileSessionProvider
LastArg == fsp_last.arg

\* the last call was record_evaluation on the session at the current index
RecordedOnCurrent ==
    /\ fsp_last.op = "record_evaluation"
    /\ LastArg \in Sessions
    /\ LastArg = fsp_last.index

MarkedCurrentInvalid ==
    /\ fsp_last.op = "mark_invalid"
    /\ LastArg \in Sessions
    /\ LastArg = fsp_last.index
    /\ fsp_last.usage[LastArg] \in 0 .. max_usage

RecordedOnFresh ==
    /\ fsp_last.op = "record_evaluation"
    /\ LastArg \in Sessions
    /\ fsp_fresh[LastArg] /\ fsp_valid[LastArg]

\* C8 as stated: the first max_usage calls report no rotation and the
\* (max_usage + 1)-th reports it.
C8_AsStated ==
    RecordedOnFresh =>
        /\ fsp_recs[LastArg] <= max_usage => fsp_last.ret > 0
        /\ fsp_recs[LastArg] = max_usage + 1 => fsp_last.ret = 0

\* C8, amended: the first max_usage - 1 calls report no rotation and the
\* max_usage-th call reports it (remaining 0, index advanced).
C8_RotationOnTthCall ==
    RecordedOnFresh =>
        /\ fsp_recs[LastArg] < max_usage =>
              fsp_last.ret > 0 /\ fsp_index = fsp_last.index
        /\ fsp_recs[LastArg] = max_usage =>
              fsp_last.ret = 0 /\ fsp_index = (fsp_last.index + 1) % N

C8_Witness ==
    /\ RecordedOnFresh
    /\ max_usage = 2 /\ fsp_recs[LastArg] = 2
    /\ fsp_last.ret = 0

\* the last call was the get_session that followed get_session -> s and
\* then max_usage record_evaluation(s) calls and nothing else, the last of
\* them returning 0, while another valid session exists
AfterExhaustingSession ==
    /\ fsp_last.op = "get_session"
    /\ fsp_last.run.session # None
    /\ fsp_last.run.clean
    /\ fsp_last.run.records = max_usage
    /\ fsp_last.run.zero
    /\ \E o \in Sessions \ {fsp_last.run.session} : fsp_valid[o]

C26_MarkInvalidIsFinal ==
    [][\A s \in Sessions :
         /\ ~fsp_valid[s] => ~fsp_valid'[s]
         /\ (fsp_calls' # fsp_calls /\ fsp_last'.op = "mark_invalid"
               /\ fsp_last'.arg = s /\ fsp_valid[s])
            => (~fsp_valid'[s]
                /\ available_session_count' = available_session_count - 1)
         /\ (fsp_calls' # fsp_calls /\ fsp_last'.op = "get_session"
               /\ ~fsp_valid[s])
            => fsp_last'.ret # s]_vars

C26_Witness ==
    /\ fsp_last.op = "get_session" /\ fsp_last.ret # None
    /\ available_session_count = N - 1
    /\ fsp_rot > 0 /\ fsp_calls >= 3

\* C27: a get_session call (for the pool's own session type) returns a valid
\* session whenever the pool holds one, wherever the index stands and
\* whatever the usage counts are; it returns None only when none is valid.
C27_GetSessionFindsValid ==
    fsp_last.op = "get_session" =>
        IF \E s \in Sessions : fsp_valid[s]
        THEN fsp_last.ret \in Sessions /\ fsp_valid[fsp_last.ret]
        ELSE fsp_last.ret = None

C27_Witness ==
    /\ fsp_last.op = "get_session"
    /\ fsp_last.ret \in Sessions
    /\ fsp_last.ret # fsp_last.index
    /\ ~fsp_valid[fsp_last.index]

\* ========================================================= HTTP clients
\* the responses after which the retry loops are meant to go round again
Transient(r) ==
    \/ r.kind \in {"Timeout", "RequestException"}
    \/ r.kind = "HTTPError" /\ r.status >= 500

ClientError(r) == r.kind = "HTTPError" /\ r.status >= 400 /\ r.status < 500

\* this step sends a request to endpoint e
Sends(e) == http'.requests[e] = http.requests[e] + 1

\* this step sends a request to e that is not the first of its call
SendsAgain(e) == Sends(e) /\ http.requests[e] > 0

C22_SubmitRetries ==
    [][/\ http'.requests["submit"] <= submit_retry_attempts
       /\ SendsAgain("submit") => Transient(http.last)
       /\ (Sends("submit") /\ http'.last.kind = "ok")
          => http'.outcome \in {"return", "PersistenceError"}
       /\ (Sends("submit") /\ http'.last.kind = "ok"
             /\ http'.last.body \in {"prompt", "empty", "object"})
          => http'.outcome = "return"
       /\ (Sends("submit") /\ Transient(http'.last))
          => http'.outcome = IF http'.requests["submit"] = submit_retry_attempts
                             THEN "PersistenceError" ELSE "running"]_vars

\* two transient failures followed by a success: exactly three requests
C22_Witness ==
    /\ http.op = "save" /\ http.outcome = "return"
    /\ http.last.kind = "ok"
    /\ http.requests["submit"] = 3

\* C23: a 4xx response to a poll or submit request ends the call at once
\* with ApiProviderError / PersistenceError, whatever the attempt count and
\* the attempts already made: no request of the call follows it.
C23_ClientErrorNotRetried ==
    [][/\ (Sends("poll") /\ ClientError(http'.last))
          => http'.outcome = "ApiProviderError"
       /\ (Sends("submit") /\ ClientError(http'.last))
          => http'.outcome = "PersistenceError"
       /\ \A e \in {"poll", "submit"} :
            SendsAgain(e) => ~ClientError(http.last)]_vars

C23_Witness ==
    /\ http.op = "save" /\ http.outcome = "PersistenceError"
    /\ ClientError(http.last)
    /\ http.requests["submit"] = 2 /\ submit_retry_attempts > 2

\* a save() call on an open persister, for a prompt with an evaluation_id,
\* has ended
SaveEnded ==
    /\ http.op = "save" /\ http.outcome # "running"
    /\ ~http.closed /\ http.evaluation_id

\* C24 as stated: such a save() has sent requests to exactly one endpoint:
\* to submit when run_number > 0, to release when run_number is 0, the
\* error message of the result, when it has one, being the failure reason.
C24_AsStated ==
    SaveEnded =>
        IF http.run_number > 0
        THEN http.requests["submit"] > 0 /\ http.requests["release"] = 0
        ELSE /\ http.requests["release"] > 0 /\ http.requests["submit"] = 0
             /\ http.error_message => http.failure_reason = "error_message"

\* C25 as stated: such a save() with run_number 0 has sent exactly one
\* request to the release endpoint and has returned normally.
C25_AsStated ==
    (SaveEnded /\ http.run_number = 0) =>
        (http.requests["release"] = 1 /\ http.outcome = "return")

\* ================================================== CitationExtractor
Absolute(url) == Len(url) >= 2 /\ url[1] = "http" /\ url[2] \in {"://", "s://"}

\* C28 as stated: every Citation the extractor returns has an absolute URL.
C28_AsStated ==
    citations.extracted =>
        \A i \in 1 .. Len(citations.list) : Absolute(citations.list[i].url)

\* ============================================ the forced-rotation retry
\* C29 as stated: with two or more sessions, the Bot that makes the evaluate
\* call of the forced-rotation retry was initialized with another credential
\* than the Bot of the last in-budget evaluate call of the prompt.
C29_AsStated ==
    (pc = "final_eval" /\ N >= 2 /\ is_initialized(bot) /\ result.kind # "none")
        => bot.cred # result.cred

\* C30 as stated: when start_new_conversation returns false, in the attempt
\* loop or in the forced-rotation retry, the Bot is closed and dropped.
C30_AsStated ==
    [][((pc = "conv" /\ pc' \in {"ensure", "final"})
        \/ (pc = "final_conv" /\ pc' = "save_fail")) => ~bot'.obj]_vars

\* ============================== FileSessionProvider: frame of the index
\* C39 as stated: a record_evaluation or mark_invalid call made for a
\* session other than the one at the current index leaves the index where
\* it was.
C39_AsStated ==
    (fsp_last.op \in {"record_evaluation", "mark_invalid"}
       /\ fsp_last.arg # fsp_last.index)
        => fsp_index = fsp_last.index

\* ================================================ submit: every outcome
\* C40 as stated: a save() with run_number > 0 on an open persister, for a
\* prompt with an evaluation_id, ends by returning only when a submit request
\* was answered successfully, and by raising PersistenceError otherwise.
C40_AsStated ==
    (SaveEnded /\ http.run_number > 0) =>
        IF http.requests["submit"] > 0 /\ http.last.kind = "ok"
              /\ http.last.body \in {"prompt", "empty", "object"}
        THEN http.outcome = "return"
        ELSE http.outcome = "PersistenceError"

\* ===================================== Orchestrator.run: the cleanup path
\* C37 as stated: once the signal handlers were installed, every way out of
\* run() (the normal one, an exception of poll, evaluate or save, a browser
\* driver that does not start) has restored the handlers and closed the Bot
\* and the driver.  The call of restore_signal_handlers is seen on SIGINT,
\* whose handler before run() was Python's own and is put back by it.
C37_AsStated ==
    (pc \in {"done", "raised"}) =>
        /\ handler["SIGINT"] # "_handle_signal"
        /\ ~bot.obj
        /\ ~playwright

\* ========================================== Orchestrator: one open browser
\* C38 as stated: no Bot is replaced while its browser is still open, so
\* that at most one Bot of the Orchestrator holds an open browser.
C38_AsStated ==
    orphans + (IF bot.obj /\ bot.browser THEN 1 ELSE 0) <= 1

\* ============================================ one save for every prompt
\* C35 as stated: whenever run() is about to poll again or has returned,
\* other than through an exception of save, the prompt polled last has
\* exactly one save; no prompt ever has more than one.
C35_AsStated ==
    /\ Len(saves) <= 1
    /\ (/\ processed > 0
        /\ \/ pc \in {"loop", "poll", "idle", "wait", "done"}
           \/ pc = "raised" /\ raised_by # "save")
        => Len(saves) = 1

\* ======================================= Orchestrator: initialize fails
\* a step of _ensure_bot_ready in the attempt loop that did not end with a
\* ready Bot
InitializeFailed ==
    /\ pc = "ensure" /\ pc' # "conv"
    /\ <<pc, attempt, pool_index, pool_usage>>' # <<pc, attempt, pool_index, pool_usage>>

\* C31: when initialize returns false the pool is force-rotated by exactly
\* one position, no Bot is kept, no evaluate is made in that attempt, run()
\* is not left by an exception and the attempt number moves on; in the
\* forced-rotation retry the failure adds one rotation to the retry's own
\* and leads to the failure record without an evaluate.
C31_InitializeFailure ==
    [][/\ InitializeFailed =>
            /\ pool_index' = (pool_index + 1) % N /\ pool_usage' = 0
            /\ ~bot'.obj
            /\ evals' = evals /\ final_evals' = final_evals
            /\ attempt' = attempt + 1
            /\ pc' \in {"ensure", "final"} /\ raised_by' = raised_by
       /\ (pc = "final" /\ pc' = "save_fail") =>
            /\ pool_index' = (pool_index + 2) % N /\ pool_usage' = 0
            /\ ~bot'.obj
            /\ evals' = evals /\ final_evals' = final_evals
            /\ raised_by' = raised_by]_vars

\* the first attempt for the first prompt failed at initialize: the second
\* attempt starts on the next credential, with no Bot and no evaluate made
C31_Witness ==
    /\ pc = "ensure" /\ attempt = 2 /\ processed = 1
    /\ evals = 0 /\ ~all_ok /\ ~bot.obj
    /\ N = 2 /\ pool_index = 1 /\ pool_usage = 0

\* ================================ Orchestrator: a conversation per evaluate
\* the places of _process_prompt where evaluate is the next call
AtEvaluate == pc \in {"eval", "final_eval"}

\* a call of evaluate: it returned a result, or it raised
EvaluateCalled ==
    \/ evals' + final_evals' > evals + final_evals
    \/ raised_by' = "evaluate" /\ raised_by # "evaluate"

\* C32: evaluate is only called where it is the next call; that place is
\* only reached by a start_new_conversation that returned true, on the Bot
\* that evaluate is then called on; and the call of evaluate leaves that
\* place, so that a second evaluate needs a new conversation.
C32_ConversationBeforeEvaluate ==
    [][/\ EvaluateCalled => (AtEvaluate /\ ~AtEvaluate')
       /\ (AtEvaluate' /\ ~AtEvaluate) =>
            /\ pc = (IF pc' = "eval" THEN "conv" ELSE "final_conv")
            /\ CanStartConversation(bot) /\ all_ok' = all_ok
            /\ bot.obj /\ bot' = bot
       /\ (AtEvaluate /\ AtEvaluate') =>
            /\ pc' = pc /\ evals' = evals /\ final_evals' = final_evals
            /\ bot'.obj /\ bot'.cred = bot.cred]_vars

\* the second evaluate for a prompt is about to be made on the Bot that
\* made the first: a new conversation was started in between
C32_Witness ==
    /\ pc = "eval" /\ attempt = 2 /\ evals = 1 /\ all_ok
    /\ bot.obj /\ result.kind = "nocit" /\ result.cred = bot.cred

\* ============================ Orchestrator: the Bot and the pool agree
\* C33: wherever evaluate is the next call, the Orchestrator holds a Bot
\* and that Bot was initialized with the credential at the pool's current
\* index; more, every Bot the Orchestrator holds at any moment is one of
\* the pool's current credential, so a rotation never leaves a Bot behind.
C33_EvaluateOnCurrentCredential ==
    /\ AtEvaluate => (bot.obj /\ bot.cred = pool_index)
    /\ bot.obj => bot.cred = pool_index

\* after an automatic rotation (max_usage = 1) the second evaluate for the
\* prompt is about to be made on a Bot of the second credential
C33_Witness ==
    /\ pc = "eval" /\ attempt = 2 /\ evals = 1 /\ processed = 1
    /\ N = 2 /\ max_usage = 1 /\ pool_index = 1
    /\ is_initialized(bot) /\ bot.cred = 1 /\ result.cred = 0

\* ===================================== Orchestrator: what a save carries
\* C34: a save with run_number >= 1 carries an EvaluationResult with
\* citations; a save with run_number 0 carries the empty result built at
\* the end of _process_prompt (success False, no citations, the error
\* message "No citations found after ... attempts").
C34_SavedResults ==
    \A i \in 1 .. Len(saves) :
        /\ saves[i].run >= 1 => has_citations(saves[i])
        /\ saves[i].run = 0 =>
              (saves[i].kind = empty_result.kind /\ ~has_citations(saves[i]))

\* the failure record of a prompt whose evaluations, the forced-rotation
\* retry included, all came back without citations
C34_Witness ==
    /\ Len(saves) = 1 /\ saves[1].run = 0 /\ saves[1].kind = "empty"
    /\ evals = max_attempts /\ final_evals = 1 /\ max_attempts >= 1

\* ===================================== _process_prompt: calls per prompt
\* the places of _process_prompt
InProcessPrompt ==
    pc \in {"ensure", "conv", "eval", "save", "final", "final_conv",
            "final_eval", "final_save", "save_fail"}

\* C36: for a prompt, at most max_attempts + 1 evaluate calls and at most
\* max_attempts + 1 initialize calls are made, the forced-rotation retry
\* included; inside the attempt loop neither count exceeds the number of
\* the attempt, so an attempt that fails at initialize or at
\* start_new_conversation uses up its number all the same; and
\* _process_prompt, once entered, is left.
C36_BoundedCalls ==
    /\ [](/\ evals + final_evals <= max_attempts + 1
          /\ inits <= max_attempts + 1
          /\ attempt <= max_attempts + 1
          /\ pc \in {"ensure", "conv", "eval", "save"} =>
                (/\ attempt \in 1 .. max_attempts
                 /\ evals <= attempt /\ inits <= attempt))
    /\ (InProcessPrompt ~> ~InProcessPrompt)

\* the prompt ended after max_attempts = 2 attempts and the retry, each of
\* which initialized a Bot: three initialize calls, one evaluate
C36_Witness ==
    /\ finished /\ max_attempts = 2
    /\ inits = 3 /\ evals + final_evals = 1 /\ ~all_ok
====
